---------------------------- MODULE Spec2Model ----------------------------
(***************************************************************************)
(* Model of invoices/serializers.py: InvoiceDetailSerializer (field-level  *)
(* validation of one line item) and InvoiceSerializer (object-level        *)
(* validation, create, update and delete of an invoice header and its      *)
(* line items).                                                            *)
(*                                                                         *)
(* Storage is the two tables the serializers read and write through the    *)
(* ORM: `invoices` (Invoice rows) and `details` (InvoiceDetail rows).      *)
(* Every ORM call that writes is one step of a request, so the states      *)
(* between the record writes of one create/update/delete are states of     *)
(* the model.  The source opens no transaction around them.                *)
(*                                                                         *)
(* Text values are sequences of one-character strings, so that str.strip() *)
(* is computed.  A submitted mapping is a function whose DOMAIN is the set *)
(* of keys present, so that dict.get(key) on an absent key is modelled.    *)
(*                                                                         *)
(* Specifications:                                                         *)
(*   Spec            one request at a time, well-formed mappings           *)
(*   SpecAnyInput    one request at a time, any mapping                    *)
(*   SpecConcurrent  two requests interleaved at every ORM call            *)
(*   SpecFields      InvoiceDetailSerializer on one raw line item          *)
(*                                                                         *)
(* preInvoices, preDetails, broken and clash record what a request found   *)
(* when it started; no action reads them.                                  *)
(***************************************************************************)
EXTENDS Integers, Sequences, FiniteSets, TLC

VARIABLES
    invoices,        \* stored Invoice rows: [id, invoice_number, customer_name, date]
    details,         \* stored InvoiceDetail rows: [id, invoice, description, quantity, unit_price]
    nextInvoiceId,   \* next identifier storage assigns to an Invoice row
    nextDetailId,    \* next identifier storage assigns to an InvoiceDetail row
    pc,              \* per request: position in validate / create / update / delete
    op,              \* per request: "create", "update", "delete" or "none"
    data,            \* per request: the submitted mapping (validated_data once validated)
    instance,        \* per request: the in-memory Invoice object (loaded, or created)
    details_data,    \* per request: line items popped from the mapping, not yet written
    err,             \* per request: the exception raised, "" when none
    preInvoices,     \* per request: `invoices` when the request started
    preDetails,      \* per request: `details` when the request started
    item,            \* the raw line item handed to InvoiceDetailSerializer
    checked,         \* per field of `item`: <<outcome>> of its validate_<field> method, <<>> before
    broken,          \* per request: the rules the submitted mapping broke when validate ran
    clash            \* per request: ids of the rows that held the submitted number then

vars == <<invoices, details, nextInvoiceId, nextDetailId, pc, op, data, instance,
          details_data, err, preInvoices, preDetails, item, checked, broken, clash>>

storeVars == <<invoices, details, nextInvoiceId, nextDetailId>>
reqVars == <<pc, op, data, instance, details_data, err, preInvoices, preDetails, broken,
            clash>>
itemVars == <<item, checked>>

(***************************************************************************)
(* Bounds of the model.                                                    *)
(***************************************************************************)
MaxItems == 2          \* longest submitted details collection
MaxInvoiceId == 2      \* Invoice rows ever created
MaxDetailId == 3       \* InvoiceDetail rows ever created
MaxTextLen == 2        \* longest raw description handed to validate_description
MaxAmount == 2         \* raw quantity and unit price range over -MaxAmount..MaxAmount

Requests == {"A", "B"}

(***************************************************************************)
(* Messages of the exceptions the source raises.                           *)
(***************************************************************************)
MsgQuantity == "Quantity must be a positive integer."
MsgUnitPrice == "Unit price must be a positive value."
MsgDescription == "Description cannot be empty or whitespace."
MsgDetails == "Invoice must have at least one detail item."
MsgUnique == "Invoice number must be unique."
MsgCustomer == "Customer name cannot be empty."
MsgDate == "Date cannot be empty."
\* customer_name.strip() on None: not a ValidationError
AttributeError == "AttributeError: 'NoneType' object has no attribute 'strip'"
\* an exception of the persistence layer, propagated unchanged
StorageError == "StorageError"
\* InvoiceDetail insert whose invoice row is gone, under referential enforcement
IntegrityError == "IntegrityError"

(***************************************************************************)
(* Text: str.strip() and truthiness.                                       *)
(***************************************************************************)
Whitespace == {" ", "\t", "\n"}

RECURSIVE lstrip(_)
lstrip(s) ==
    IF s = <<>> THEN s
    ELSE IF Head(s) \in Whitespace THEN lstrip(Tail(s)) ELSE s

RECURSIVE rstrip(_)
rstrip(s) ==
    IF s = <<>> THEN s
    ELSE IF s[Len(s)] \in Whitespace THEN rstrip(SubSeq(s, 1, Len(s) - 1)) ELSE s

strip(s) == rstrip(lstrip(s))

\* A call either returns a value or raises: [raised |-> message or "", value |-> v]
Returns(v) == [raised |-> "", value |-> v]
Raises(msg, v) == [raised |-> msg, value |-> v]

(***************************************************************************)
(* InvoiceDetailSerializer                                                 *)
(***************************************************************************)
get_line_total(obj) == obj.quantity * obj.unit_price

validate_quantity_lt(value) ==
    IF value < 0 THEN Raises(MsgQuantity, value) ELSE Returns(value)

validate_quantity(value) ==
    IF value <= 0 THEN Raises(MsgQuantity, value) ELSE Returns(value)

validate_unit_price(value) ==
    IF value <= 0 THEN Raises(MsgUnitPrice, value) ELSE Returns(value)

validate_description(value) ==
    IF strip(value) = <<>> THEN Raises(MsgDescription, value) ELSE Returns(value)

(***************************************************************************)
(* Submitted mappings.  get(d, k) is d.get(k): the value, or None.         *)
(***************************************************************************)
Keys == {"details", "invoice_number", "customer_name", "date"}

has(d, k) == k \in DOMAIN d
\* dict.get(k): [none |-> TRUE] stands for None
get(d, k) == IF has(d, k) THEN [none |-> FALSE, v |-> d[k]] ELSE [none |-> TRUE]
\* dict.get(k, default)
getOr(d, k, default) == IF has(d, k) THEN d[k] ELSE default

\* `not x` for x None, an empty list, an empty value
falsy(x) == x.none \/ Len(x.v) = 0

(***************************************************************************)
(* InvoiceSerializer: object-level validation.  `self` carries the         *)
(* serializer's instance (NoInstance on create); the uniqueness check      *)
(* reads the stored Invoice rows.                                          *)
(***************************************************************************)
NoInstance == [id |-> 0, invoice_number |-> "", customer_name |-> <<>>, date |-> <<>>]

_validate_details(self, details_arg) ==
    IF falsy(details_arg) THEN Raises(MsgDetails, details_arg) ELSE Returns(details_arg)

\* a uniqueness check that never fails
_validate_invoice_number_off(self, invoice_number) == Returns(invoice_number)

\* a uniqueness check that leaves out the row being updated
_validate_invoice_number_excluding_self(self, invoice_number) ==
    IF \E i \in invoices :
          /\ i.id # self.instance.id
          /\ ~invoice_number.none
          /\ i.invoice_number = invoice_number.v
    THEN Raises(MsgUnique, invoice_number)
    ELSE Returns(invoice_number)

\* Invoice.objects.filter(invoice_number=...).exists(); no stored number is NULL
_validate_invoice_number(self, invoice_number) ==
    IF \E i \in invoices : ~invoice_number.none /\ i.invoice_number = invoice_number.v
    THEN Raises(MsgUnique, invoice_number)
    ELSE Returns(invoice_number)

_validate_customer_name(self, customer_name) ==
    IF customer_name.none THEN Raises(AttributeError, customer_name)
    ELSE IF strip(customer_name.v) = <<>> THEN Raises(MsgCustomer, customer_name)
    ELSE Returns(customer_name)

_validate_date(self, date) ==
    IF falsy(date) THEN Raises(MsgDate, date) ELSE Returns(date)

validate(self, d) ==
    LET r1 == _validate_details(self, get(d, "details"))
        r2 == _validate_invoice_number(self, get(d, "invoice_number"))
        r3 == _validate_customer_name(self, get(d, "customer_name"))
        r4 == _validate_date(self, get(d, "date"))
    IN  IF r1.raised # "" THEN Raises(r1.raised, d)
        ELSE IF r2.raised # "" THEN Raises(r2.raised, d)
        ELSE IF r3.raised # "" THEN Raises(r3.raised, d)
        ELSE IF r4.raised # "" THEN Raises(r4.raised, d)
        ELSE Returns(d)

(***************************************************************************)
(* Inputs.  Line items of a submission have passed InvoiceDetailSerializer.*)
(* A create is a full submission; an update may be partial (any key may be *)
(* absent), which update() provides for with its .get(key, default) calls. *)
(***************************************************************************)
Widget == [description |-> <<"W">>, quantity |-> 2, unit_price |-> 500]
Gadget == [description |-> <<"G">>, quantity |-> 1, unit_price |-> 250]
Items == {Widget, Gadget}
DetailChoices == UNION {[1..n -> Items] : n \in 0..MaxItems}
Numbers == {"INV-001", "INV-002"}
Names == {<<" ">>, <<"A">>}
Dates == {<<>>, <<2024, 1, 1>>}

FullInputs ==
    [details : DetailChoices, invoice_number : Numbers, customer_name : Names, date : Dates]
Restrict(f, K) == [k \in K |-> f[k]]
CreateInputs == FullInputs
UpdateInputs == {Restrict(f, K) : f \in FullInputs, K \in SUBSET Keys}

NoData == Restrict(NoInstance, {})

Amounts == (0 - MaxAmount)..MaxAmount
Chars == {" ", "\t", "x"}
Texts == UNION {[1..n -> Chars] : n \in 0..MaxTextLen}
RawItems == [description : Texts, quantity : Amounts, unit_price : Amounts]
Fields == {"description", "quantity", "unit_price"}
Unchecked == <<>>

(***************************************************************************)
(* Initial state: empty storage, no request in progress.                   *)
(***************************************************************************)
StoreInit ==
    /\ invoices = {}
    /\ details = {}
    /\ nextInvoiceId = 1
    /\ nextDetailId = 1

ReqInit ==
    /\ pc = [r \in Requests |-> "idle"]
    /\ op = [r \in Requests |-> "none"]
    /\ data = [r \in Requests |-> NoData]
    /\ instance = [r \in Requests |-> NoInstance]
    /\ details_data = [r \in Requests |-> <<>>]
    /\ err = [r \in Requests |-> ""]
    /\ preInvoices = [r \in Requests |-> {}]
    /\ preDetails = [r \in Requests |-> {}]
    /\ broken = [r \in Requests |-> {}]
    /\ clash = [r \in Requests |-> {}]

Init ==
    /\ StoreInit
    /\ ReqInit
    /\ item = Widget
    /\ checked = [f \in Fields |-> Unchecked]

InitFields ==
    /\ StoreInit
    /\ ReqInit
    /\ item \in RawItems
    /\ checked = [f \in Fields |-> Unchecked]

(***************************************************************************)
(* Helpers over storage.                                                   *)
(***************************************************************************)
\* instance.details.all(): the stored line items of one invoice
detailsOf(id) == {d \in details : d.invoice = id}
stored(id) == \E i \in invoices : i.id = id

(***************************************************************************)
(* InvoiceDetailSerializer run on the raw item, one field at a time.       *)
(***************************************************************************)
ValidateQuantity ==
    /\ checked["quantity"] = Unchecked
    /\ checked' = [checked EXCEPT !["quantity"] = <<validate_quantity(item.quantity)>>]
    /\ UNCHANGED <<storeVars, reqVars, item>>

ValidateUnitPrice ==
    /\ checked["unit_price"] = Unchecked
    /\ checked' = [checked EXCEPT !["unit_price"] = <<validate_unit_price(item.unit_price)>>]
    /\ UNCHANGED <<storeVars, reqVars, item>>

ValidateDescription ==
    /\ checked["description"] = Unchecked
    /\ checked' = [checked EXCEPT !["description"] = <<validate_description(item.description)>>]
    /\ UNCHANGED <<storeVars, reqVars, item>>

\* empty or whitespace only
blank(text) == \A k \in 1..Len(text) : text[k] \in Whitespace

\* The rules of validate a submitted mapping breaks, each judged on its own:
\* 1 line items present, 2 invoice number unique, 3 customer name non-blank,
\* 4 date present.
brokenRules(d) ==
    {n \in 1..4 :
        \/ n = 1 /\ (~has(d, "details") \/ d.details = <<>>)
        \/ n = 2 /\ has(d, "invoice_number")
                 /\ \E i \in invoices : i.invoice_number = d.invoice_number
        \/ n = 3 /\ (~has(d, "customer_name") \/ blank(d.customer_name))
        \/ n = 4 /\ (~has(d, "date") \/ d.date = <<>>)}

\* The stored rows that hold the submitted invoice number.
clashing(d) ==
    {i.id : i \in {j \in invoices : has(d, "invoice_number")
                                     /\ j.invoice_number = d.invoice_number}}

(***************************************************************************)
(* A request r.  Validate is serializer.is_valid() reaching validate();    *)
(* the view then calls create or update with the validated data.           *)
(***************************************************************************)
Validate(r, o, inst, d) ==
    /\ pc[r] = "idle"
    /\ LET res == validate([instance |-> inst], d)
       IN  /\ pc' = [pc EXCEPT ![r] = IF res.raised = "" THEN "validated" ELSE "rejected"]
           /\ err' = [err EXCEPT ![r] = res.raised]
           /\ data' = [data EXCEPT ![r] = IF res.raised = "" THEN res.value ELSE NoData]
    /\ broken' = [broken EXCEPT ![r] = brokenRules(d)]
    /\ clash' = [clash EXCEPT ![r] = clashing(d)]
    /\ op' = [op EXCEPT ![r] = o]
    /\ instance' = [instance EXCEPT ![r] = inst]
    /\ UNCHANGED <<storeVars, details_data, itemVars>>

\* Invoice.objects.create refusing a number that is already stored
CreateUniqueConstraint(r) ==
    /\ pc[r] = "validated"
    /\ op[r] = "create"
    /\ nextInvoiceId <= MaxInvoiceId
    /\ nextDetailId + Len(data[r].details) - 1 <= MaxDetailId
    /\ LET invoice == [id |-> nextInvoiceId,
                       invoice_number |-> data[r].invoice_number,
                       customer_name |-> data[r].customer_name,
                       date |-> data[r].date]
           dup == \E i \in invoices : i.invoice_number = invoice.invoice_number
       IN  /\ invoices' = IF dup THEN invoices ELSE invoices \cup {invoice}
           /\ nextInvoiceId' = IF dup THEN nextInvoiceId ELSE nextInvoiceId + 1
           /\ instance' = [instance EXCEPT ![r] = IF dup THEN @ ELSE invoice]
           /\ err' = [err EXCEPT ![r] = IF dup THEN IntegrityError ELSE @]
           /\ pc' = [pc EXCEPT ![r] = IF dup THEN "failed" ELSE "details"]
    /\ details_data' = [details_data EXCEPT ![r] = data[r].details]
    /\ UNCHANGED <<details, nextDetailId, op, data, preInvoices, preDetails, broken, clash, itemVars>>

\* create, lines 95-96: pop the details, write the header
Create(r) ==
    /\ pc[r] = "validated"
    /\ op[r] = "create"
    /\ nextInvoiceId <= MaxInvoiceId
    /\ nextDetailId + Len(data[r].details) - 1 <= MaxDetailId
    /\ LET invoice == [id |-> nextInvoiceId,
                       invoice_number |-> data[r].invoice_number,
                       customer_name |-> data[r].customer_name,
                       date |-> data[r].date]
       IN  /\ invoices' = invoices \cup {invoice}
           /\ instance' = [instance EXCEPT ![r] = invoice]
    /\ nextInvoiceId' = nextInvoiceId + 1
    /\ details_data' = [details_data EXCEPT ![r] = data[r].details]
    /\ pc' = [pc EXCEPT ![r] = IF data[r].details = <<>> THEN "done" ELSE "details"]
    /\ UNCHANGED <<details, nextDetailId, op, data, err, preInvoices, preDetails, broken, clash, itemVars>>

\* the row InvoiceDetail.objects.create(invoice=invoice, **detail_data) writes
detailRow(invoice, detail_data) ==
    [id |-> nextDetailId,
     invoice |-> invoice.id,
     description |-> detail_data.description,
     quantity |-> detail_data.quantity,
     unit_price |-> detail_data.unit_price]

\* what the insert can do: written, or refused when the invoice row is gone
\* and storage enforces the reference
insertOutcomes(invoice) ==
    IF stored(invoice.id) THEN {"written"} ELSE {"written", IntegrityError}

\* a loop that walks the submitted items from the end
_create_invoice_details_reversed(r) ==
    /\ pc[r] = "details"
    /\ nextDetailId <= MaxDetailId
    /\ LET n == Len(details_data[r])
       IN  /\ details' = details \cup {detailRow(instance[r], details_data[r][n])}
           /\ details_data' = [details_data EXCEPT ![r] = SubSeq(@, 1, n - 1)]
           /\ pc' = [pc EXCEPT ![r] = IF n = 1 THEN "done" ELSE "details"]
    /\ nextDetailId' = nextDetailId + 1
    /\ UNCHANGED <<invoices, nextInvoiceId, op, data, instance, err,
                   preInvoices, preDetails, broken, clash, itemVars>>

\* _create_invoice_details: one iteration of the loop; after the last, create
\* or update returns
_create_invoice_details(r) ==
    /\ pc[r] = "details"
    /\ nextDetailId <= MaxDetailId
    /\ \E outcome \in insertOutcomes(instance[r]) :
          IF outcome = "written"
          THEN /\ details' = details \cup {detailRow(instance[r], Head(details_data[r]))}
               /\ nextDetailId' = nextDetailId + 1
               /\ details_data' = [details_data EXCEPT ![r] = Tail(@)]
               /\ pc' = [pc EXCEPT ![r] =
                            IF Tail(details_data[r]) = <<>> THEN "done" ELSE "details"]
               /\ err' = err
          ELSE /\ pc' = [pc EXCEPT ![r] = "failed"]
               /\ err' = [err EXCEPT ![r] = outcome]
               /\ UNCHANGED <<details, nextDetailId, details_data>>
    /\ UNCHANGED <<invoices, nextInvoiceId, op, data, instance, preInvoices,
                   preDetails, broken, clash, itemVars>>

\* update, lines 107-111: pop the details, overwrite the header fields (each
\* falling back to the loaded instance's value), instance.save()
Update(r) ==
    /\ pc[r] = "validated"
    /\ op[r] = "update"
    /\ nextDetailId + Len(data[r].details) - 1 <= MaxDetailId
    /\ LET saved == [id |-> instance[r].id,
                     invoice_number |->
                         getOr(data[r], "invoice_number", instance[r].invoice_number),
                     customer_name |->
                         getOr(data[r], "customer_name", instance[r].customer_name),
                     date |-> getOr(data[r], "date", instance[r].date)]
       IN  /\ invoices' = {i \in invoices : i.id # saved.id} \cup {saved}
           /\ instance' = [instance EXCEPT ![r] = saved]
    /\ details_data' = [details_data EXCEPT ![r] = data[r].details]
    /\ pc' = [pc EXCEPT ![r] = "update_clear"]
    /\ UNCHANGED <<details, nextInvoiceId, nextDetailId, op, data, err,
                   preInvoices, preDetails, broken, clash, itemVars>>

\* an update that keeps the stored line items and adds the submitted ones
UpdateClearMerge(r) ==
    /\ pc[r] = "update_clear"
    /\ pc' = [pc EXCEPT ![r] = IF details_data[r] = <<>> THEN "done" ELSE "details"]
    /\ UNCHANGED <<storeVars, op, data, instance, details_data, err,
                   preInvoices, preDetails, broken, clash, itemVars>>

\* update, line 114: instance.details.all().delete()
UpdateClear(r) ==
    /\ pc[r] = "update_clear"
    /\ details' = details \ detailsOf(instance[r].id)
    /\ pc' = [pc EXCEPT ![r] = IF details_data[r] = <<>> THEN "done" ELSE "details"]
    /\ UNCHANGED <<invoices, nextInvoiceId, nextDetailId, op, data, instance,
                   details_data, err, preInvoices, preDetails, broken, clash, itemVars>>

\* a delete that removes the header first
DeleteHeaderFirst(r, inst) ==
    /\ pc[r] = "idle"
    /\ inst \in invoices
    /\ op' = [op EXCEPT ![r] = "delete"]
    /\ instance' = [instance EXCEPT ![r] = inst]
    /\ invoices' = {i \in invoices : i.id # inst.id}
    /\ pc' = [pc EXCEPT ![r] = "delete_instance"]
    /\ UNCHANGED <<details, nextInvoiceId, nextDetailId, data, details_data, err, broken, clash, itemVars>>

\* delete, line 130: instance.details.all().delete()
Delete(r, inst) ==
    /\ pc[r] = "idle"
    /\ inst \in invoices
    /\ op' = [op EXCEPT ![r] = "delete"]
    /\ instance' = [instance EXCEPT ![r] = inst]
    /\ details' = details \ detailsOf(inst.id)
    /\ pc' = [pc EXCEPT ![r] = "delete_instance"]
    /\ UNCHANGED <<invoices, nextInvoiceId, nextDetailId, data, details_data, err, broken, clash, itemVars>>

\* delete, lines 131-132: instance.delete(), return the confirmation
DeleteInstance(r) ==
    /\ pc[r] = "delete_instance"
    /\ invoices' = {i \in invoices : i.id # instance[r].id}
    /\ pc' = [pc EXCEPT ![r] = "done"]
    /\ UNCHANGED <<details, nextInvoiceId, nextDetailId, op, data, instance,
                   details_data, err, preInvoices, preDetails, broken, clash, itemVars>>

\* the next ORM call of the request raises: nothing more is written, and
\* nothing written so far is undone
StorageFail(r) ==
    /\ pc[r] \in {"validated", "details", "update_clear", "delete_instance"}
    /\ pc' = [pc EXCEPT ![r] = "failed"]
    /\ err' = [err EXCEPT ![r] = StorageError]
    /\ UNCHANGED <<storeVars, op, data, instance, details_data, preInvoices,
                   preDetails, broken, clash, itemVars>>

\* the request is over: its result or its exception has reached the caller
Respond(r) ==
    /\ pc[r] \in {"done", "rejected", "failed"}
    /\ pc' = [pc EXCEPT ![r] = "idle"]
    /\ op' = [op EXCEPT ![r] = "none"]
    /\ data' = [data EXCEPT ![r] = NoData]
    /\ instance' = [instance EXCEPT ![r] = NoInstance]
    /\ details_data' = [details_data EXCEPT ![r] = <<>>]
    /\ err' = [err EXCEPT ![r] = ""]
    /\ preInvoices' = [preInvoices EXCEPT ![r] = {}]
    /\ preDetails' = [preDetails EXCEPT ![r] = {}]
    /\ broken' = [broken EXCEPT ![r] = {}]
    /\ clash' = [clash EXCEPT ![r] = {}]
    /\ UNCHANGED <<storeVars, itemVars>>

alone(r) == \A q \in Requests \ {r} : pc[q] = "idle"

\* bookkeeping for the properties: storage as the request found it
snapshot(r) ==
    /\ preInvoices' = [preInvoices EXCEPT ![r] = invoices]
    /\ preDetails' = [preDetails EXCEPT ![r] = details]

SerialValidate(r, o, inst, d) == alone(r) /\ Validate(r, o, inst, d) /\ snapshot(r)

SerialDelete(r, inst) == alone(r) /\ Delete(r, inst) /\ snapshot(r)

\* the mappings whose customer name and date pass their rules
wellFormed(d) ==
    /\ has(d, "customer_name") /\ strip(d.customer_name) # <<>>
    /\ has(d, "date") /\ d.date # <<>>
WellFormedCreateInputs == {d \in CreateInputs : wellFormed(d)}
WellFormedUpdateInputs == {d \in UpdateInputs : wellFormed(d)}

\* One submission at a time: a request starts only when no other is in
\* progress, and runs to its response.  The submitted mappings are the
\* well-formed ones, with any line items (none included) and any number
\* (absent included, on update); the others are explored by SpecAnyInput.
Next ==
    \E r \in Requests :
        \/ \E d \in WellFormedCreateInputs : SerialValidate(r, "create", NoInstance, d)
        \/ \E inst \in invoices, d \in WellFormedUpdateInputs :
              SerialValidate(r, "update", inst, d)
        \/ Create(r)
        \/ _create_invoice_details(r)
        \/ Update(r)
        \/ UpdateClear(r)
        \/ \E inst \in invoices : SerialDelete(r, inst)
        \/ DeleteInstance(r)
        \/ StorageFail(r)
        \/ Respond(r)

Spec == Init /\ [][Next]_vars

\* One submission at a time, any mapping submitted: blank names, empty dates,
\* and on update any key absent.
NextAnyInput ==
    \E r \in Requests :
        \/ \E d \in CreateInputs : SerialValidate(r, "create", NoInstance, d)
        \/ \E inst \in invoices, d \in UpdateInputs : SerialValidate(r, "update", inst, d)
        \/ Create(r)
        \/ _create_invoice_details(r)
        \/ Update(r)
        \/ UpdateClear(r)
        \/ \E inst \in invoices : SerialDelete(r, inst)
        \/ DeleteInstance(r)
        \/ StorageFail(r)
        \/ Respond(r)

SpecAnyInput == Init /\ [][NextAnyInput]_vars

\* Concurrent clients: the requests interleave at every ORM call.  The
\* mappings submitted here are the well-formed ones with the one item Widget,
\* and storage stays available (its failures are explored by Spec).
ConcurrentValidate(r, o, inst, d) ==
    Validate(r, o, inst, d) /\ UNCHANGED <<preInvoices, preDetails>>

ConcurrentDelete(r, inst) == Delete(r, inst) /\ UNCHANGED <<preInvoices, preDetails>>

oneWidget(d) == has(d, "details") /\ d.details = <<Widget>>
RaceCreateInputs == {d \in WellFormedCreateInputs : oneWidget(d)}
RaceUpdateInputs == {d \in WellFormedUpdateInputs : oneWidget(d)}

NextConcurrent ==
    \E r \in Requests :
        \/ \E d \in RaceCreateInputs : ConcurrentValidate(r, "create", NoInstance, d)
        \/ \E inst \in invoices, d \in RaceUpdateInputs :
              ConcurrentValidate(r, "update", inst, d)
        \/ Create(r)
        \/ _create_invoice_details(r)
        \/ Update(r)
        \/ UpdateClear(r)
        \/ \E inst \in invoices : ConcurrentDelete(r, inst)
        \/ DeleteInstance(r)
        \/ Respond(r)

SpecConcurrent == Init /\ [][NextConcurrent]_vars

\* field-level validation of one raw line item
NextFields == ValidateQuantity \/ ValidateUnitPrice \/ ValidateDescription

SpecFields == InitFields /\ [][NextFields]_vars

(***************************************************************************)
(* Properties.                                                             *)
(***************************************************************************)
RECURSIVE sortedById(_)
\* the rows of S in the order storage created them
sortedById(S) ==
    IF S = {} THEN <<>>
    ELSE LET first == CHOOSE d \in S : \A e \in S : d.id <= e.id
         IN  <<first>> \o sortedById(S \ {first})

\* the submitted fields of a stored line item
fieldsOf(row) ==
    [description |-> row.description, quantity |-> row.quantity,
     unit_price |-> row.unit_price]

itemsOf(S) == [k \in 1..Cardinality(S) |-> fieldsOf(sortedById(S)[k])]

ids(S) == {x.id : x \in S}

validateRan(r) == pc[r] \in {"validated", "rejected"}

messageOf(n) ==
    CASE n = 1 -> MsgDetails
      [] n = 2 -> MsgUnique
      [] n = 3 -> MsgCustomer
      [] n = 4 -> MsgDate

firstOf(S) == CHOOSE n \in S : \A m \in S : n <= m

C2_NoHeaderWithoutItems ==
    \A i \in invoices : detailsOf(i.id) # {}

\* C3: when create returns, storage is what it was before plus exactly one
\* header, carrying the submitted header fields under a new identifier, and
\* exactly N line items, all linked to that identifier and created in
\* submission order with the submitted fields; nothing else changed.
C3_CreateAddsHeaderAndItems ==
    \A r \in Requests :
        (pc[r] = "done" /\ op[r] = "create") =>
            LET new == details \ preDetails[r]
            IN  /\ instance[r].id \notin ids(preInvoices[r])
                /\ invoices = preInvoices[r] \cup {instance[r]}
                /\ instance[r].invoice_number = data[r].invoice_number
                /\ instance[r].customer_name = data[r].customer_name
                /\ instance[r].date = data[r].date
                /\ preDetails[r] \subseteq details
                /\ Cardinality(new) = Len(data[r].details)
                /\ \A d \in new : d.invoice = instance[r].id
                /\ ids(new) \cap ids(preDetails[r]) = {}
                /\ itemsOf(new) = data[r].details

\* a create of two different items has returned, beside another stored invoice
C3_Witness ==
    \E r \in Requests :
        /\ pc[r] = "done"
        /\ op[r] = "create"
        /\ data[r].details = <<Gadget, Widget>>
        /\ preInvoices[r] # {}
        /\ preDetails[r] # {}

\* C4: when update returns, the invoice's stored line items are exactly the
\* submitted ones in submission order, every one a new record, and none of
\* the line items it had before is still stored.
C4_UpdateReplacesAllItems ==
    \A r \in Requests :
        (pc[r] = "done" /\ op[r] = "update") =>
            LET mine == detailsOf(instance[r].id)
                old == {d \in preDetails[r] : d.invoice = instance[r].id}
            IN  /\ Cardinality(mine) = Len(data[r].details)
                /\ itemsOf(mine) = data[r].details
                /\ ids(old) \cap ids(details) = {}
                /\ ids(mine) \cap ids(preDetails[r]) = {}

\* an update of an invoice of two items by one item, equal to one it had
C4_Witness ==
    \E r \in Requests :
        /\ pc[r] = "done"
        /\ op[r] = "update"
        /\ LET old == {d \in preDetails[r] : d.invoice = instance[r].id}
           IN  /\ Cardinality(old) = 2
               /\ Len(data[r].details) = 1
               /\ \E d \in old : fieldsOf(d) = data[r].details[1]

\* C5: delete removes the line items first and the header second: no stored
\* line item ever refers to a header that is not stored, the header is still
\* stored when its items are gone, and when delete returns neither the header
\* nor any of its items is stored while every other record is unchanged.
C5_DeleteItemsThenHeader ==
    /\ \A d \in details : stored(d.invoice)
    /\ \A r \in Requests :
          /\ pc[r] = "delete_instance" =>
                /\ detailsOf(instance[r].id) = {}
                /\ instance[r] \in invoices
          /\ (pc[r] = "done" /\ op[r] = "delete") =>
                /\ ~stored(instance[r].id)
                /\ detailsOf(instance[r].id) = {}
                /\ invoices = preInvoices[r] \ {instance[r]}
                /\ details = {d \in preDetails[r] : d.invoice # instance[r].id}

\* a delete of an invoice that had items has returned, and another invoice
\* with items is stored
C5_Witness ==
    \E r \in Requests :
        /\ pc[r] = "done"
        /\ op[r] = "delete"
        /\ \E d \in preDetails[r] : d.invoice = instance[r].id
        /\ details # {}

\* C6: validate raises the message of the lowest-numbered rule the input
\* breaks, and returns the input only when it breaks none.  (A mapping with
\* no customer_name key breaks rule 3.)
C6_FirstBrokenRuleDecides ==
    \A r \in Requests :
        validateRan(r) =>
            IF broken[r] = {}
            THEN pc[r] = "validated" /\ err[r] = ""
            ELSE pc[r] = "rejected" /\ err[r] = messageOf(firstOf(broken[r]))

\* the same, for the mappings that carry a customer name
C6_FirstBrokenRuleDecidesGivenName ==
    \A r \in Requests :
        (validateRan(r) /\ err[r] # AttributeError) =>
            IF broken[r] = {}
            THEN pc[r] = "validated" /\ err[r] = ""
            ELSE pc[r] = "rejected" /\ err[r] = messageOf(firstOf(broken[r]))

\* C7: nothing in the header write looks at the numbers already stored: a
\* create that passed validate writes its header whatever another request
\* has written since, so two creates that both validated before either wrote
\* leave two invoices with one number.
C7_HeaderWriteIgnoresStoredNumbers ==
    [][\A r \in Requests :
          (pc[r] = "validated" /\ op[r] = "create" /\ pc'[r] # "validated") =>
              \E i \in invoices' \ invoices :
                  /\ i.invoice_number = data[r].invoice_number
                  /\ instance'[r] = i]_vars

\* both requests created, and their two invoices share one number
C7_Witness ==
    \E r, q \in Requests :
        /\ r # q
        /\ op[r] = "create" /\ op[q] = "create"
        /\ pc[r] = "done" /\ pc[q] = "done"
        /\ instance[r] \in invoices /\ instance[q] \in invoices
        /\ instance[r].id # instance[q].id
        /\ instance[r].invoice_number = instance[q].invoice_number

C9_FailedCreateLeavesNothing ==
    \A r \in Requests :
        (pc[r] = "failed" /\ op[r] = "create") =>
            /\ invoices = preInvoices[r]
            /\ details = preDetails[r]

\* C10: validate_quantity raises exactly when quantity <= 0, validate_unit_price
\* exactly when unit_price <= 0, validate_description exactly when the
\* description is empty or all whitespace, and each returns an accepted value
\* unchanged.
C10_FieldValidators ==
    /\ checked["quantity"] # <<>> =>
          LET res == checked["quantity"][1]
          IN  IF item.quantity > 0
              THEN res.raised = "" /\ res.value = item.quantity
              ELSE res.raised = MsgQuantity
    /\ checked["unit_price"] # <<>> =>
          LET res == checked["unit_price"][1]
          IN  IF item.unit_price > 0
              THEN res.raised = "" /\ res.value = item.unit_price
              ELSE res.raised = MsgUnitPrice
    /\ checked["description"] # <<>> =>
          LET res == checked["description"][1]
          IN  IF blank(item.description)
              THEN res.raised = MsgDescription
              ELSE res.raised = "" /\ res.value = item.description

\* all three fields checked: quantity 0 refused, a whitespace-only description
\* refused, a positive unit price returned
C10_Witness ==
    /\ \A f \in Fields : checked[f] # <<>>
    /\ item.quantity = 0 /\ checked["quantity"][1].raised = MsgQuantity
    /\ item.description = <<" ", "\t">>
    /\ checked["description"][1].raised = MsgDescription
    /\ item.unit_price > 0 /\ checked["unit_price"][1].value = item.unit_price

=============================================================================
